---- MODULE Spec2Model ----
(***************************************************************************)
(* Layer stores of the paint grid (src/layer_store.py).                    *)
(*                                                                         *)
(* One store object of one of the three classes (SetLayerStore,            *)
(* AdditiveLayerStore, SequenceLayerStore) is constructed and then driven  *)
(* by whole calls of add / erase / get_color / special.  Every action is   *)
(* one complete call.  A method is an operator from the object's fields    *)
(* and the arguments to [self, ret, exc]: the fields after the call, the   *)
(* value returned, and the exception raised ("none" if the call returned). *)
(* A call that raises leaves the fields as they were at the raise.         *)
(*                                                                         *)
(* The containers and the layer catalogue the stores are built on          *)
(* (data_structures, layers.py, layer_util.py) are described by their      *)
(* contracts: bounded FIFO queue, bounded LIFO stack, set of positive      *)
(* integers, list sorted by key, pure colour transforms.                   *)
(***************************************************************************)
EXTENDS Integers, Sequences, FiniteSets, TLC

VARIABLES policy,   \* class of the store object: "SET", "ADD", "SEQUENCE"
          store,    \* the fields of the store object
          prev,     \* history: the fields just before the last call
          op,       \* history: the last call ("init" after construction)
          prev_op,  \* history: the call before the last one
          args,     \* history: the arguments of the last call
          ret,      \* history: what the last call returned (None if it raised)
          exc       \* history: the exception the last call raised, or "none"

\* A Grid object and the store objects its cells refer to.
VARIABLES grid,     \* the fields of the Grid object
          heap,     \* the store objects built by Grid.__init__, by identity
          glast,    \* history: the last call on the grid or on a cell's
                    \* store, with the heap just before it
          calls     \* number of calls made so far

\* The undo tracker.
VARIABLES tracker,  \* the class attributes UndoTracker.history_stack and
                    \* UndoTracker.undo_stack
          ulast     \* history: the last call on the tracker, the tracker
                    \* just before it and the calls it made on the grid

\* The replay tracker.
VARIABLES replay,   \* the fields of the ReplayTracker object
          rlast,    \* history: the last call on the replay tracker, the
                    \* tracker just before it and the calls it made on the grid
          recorded, \* history: the ActionBoolean objects queued so far
          played    \* history: the calls made on the grid so far

storevars == <<policy, store, prev, op, prev_op, args, ret, exc>>
gridvars == <<grid, heap, glast, calls>>
undovars == <<tracker, ulast>>
replayvars == <<replay, rlast, recorded, played>>

vars == <<storevars, gridvars, undovars, replayvars>>

----------------------------------------------------------------------------
(* Bounds of the model *)

\* Channel values are 0..ColourMax (255 in the program's layers).
ColourMax == 2
\* Timestamps passed to get_color are 0..MaxTimestamp.
MaxTimestamp == 1
\* Grid coordinates passed to get_color are 0..MaxCoord.
MaxCoord == 1
\* Capacity of the additive store's queue and stack; stands for
\* len(get_layers())*100 of AdditiveLayerStore.__init__.
MaxQueue == 3
\* Grid(draw_style, x, y) is built with 1 <= x <= MaxGridX, 1 <= y <= MaxGridY.
MaxGridX == 2
MaxGridY == 1
\* Calls made on one grid and its cells.
MaxCalls == 3
\* Capacity of the tracker's stacks; stands for the 10000 of
\* ArrayStack(10000) in UndoTracker.
MaxHistory == 3
\* Number of distinct PaintAction objects handed to the tracker.
NumActions == 2
\* Number of UndoTracker objects constructed.
NumTrackers == 2
\* Capacity of the replay queue; stands for the 10000 of
\* CircularQueue(10000) in ReplayTracker.__init__.
MaxReplay == 2
\* Actions recorded on one replay tracker.
MaxRecorded == 3

----------------------------------------------------------------------------
(* Python values *)

None == "None"

\* SetLayerStore.color before the first get_color: (None, None, None).
NoColour == <<-1, -1, -1>>

Channels == 0..ColourMax
Colours == Channels \X Channels \X Channels
StartColours == {<<0, 0, 0>>, <<0, 1, ColourMax>>}
Timestamps == 0..MaxTimestamp
Coords == 0..MaxCoord

Min(a, b) == IF a < b THEN a ELSE b

----------------------------------------------------------------------------
(* Layer catalogue (layers.py, layer_util.py): named, indexed, pure colour *)
(* transforms.  A layer is identified by its name.                         *)

Layers == {"rainbow", "black", "lighten", "invert"}

\* layer.apply(color, timestamp, x, y)
Apply(layer, color, timestamp, x, y) ==
    CASE layer = "black"   -> <<0, 0, 0>>
      [] layer = "lighten" -> <<Min(color[1] + 1, ColourMax),
                                Min(color[2] + 1, ColourMax),
                                Min(color[3] + 1, ColourMax)>>
      [] layer = "invert"  -> <<ColourMax - color[1],
                                ColourMax - color[2],
                                ColourMax - color[3]>>
      [] layer = "rainbow" -> <<(timestamp + x) % (ColourMax + 1),
                                (timestamp + y) % (ColourMax + 1),
                                (x + y) % (ColourMax + 1)>>

\* The distinguished invert transform used by SetLayerStore.get_color.
invert == "invert"

\* get_layers(): the catalogue in registration order, unused slots None.
get_layers == <<"rainbow", "black", "lighten", "invert", None>>

\* layer.index: 0-based position in the catalogue.
LayerIndex(layer) == (CHOOSE i \in 1..Len(get_layers) : get_layers[i] = layer) - 1

\* Position of layer.name in lexicographic order of the names.
NameRank(name) ==
    CASE name = "black"   -> 1
      [] name = "invert"  -> 2
      [] name = "lighten" -> 3
      [] name = "rainbow" -> 4

----------------------------------------------------------------------------
(* Bounded containers (data_structures): contents head/bottom first.       *)

CircularQueue(max_capacity) == [items |-> <<>>, capacity |-> max_capacity]

Queue_len(q) == Len(q.items)

Queue_is_empty(q) == Len(q.items) = 0

Queue_is_full(q) == Len(q.items) = q.capacity

Queue_append(q, item) ==
    IF Queue_is_full(q)
    THEN [q |-> q, exc |-> "Queue is full"]
    ELSE [q |-> [q EXCEPT !.items = Append(@, item)], exc |-> "none"]

Queue_serve(q) ==
    IF Queue_is_empty(q)
    THEN [q |-> q, item |-> None, exc |-> "Queue is empty"]
    ELSE [q |-> [q EXCEPT !.items = Tail(@)], item |-> Head(q.items),
          exc |-> "none"]

ArrayStack(max_capacity) == [items |-> <<>>, capacity |-> max_capacity]

Stack_len(s) == Len(s.items)

Stack_push(s, item) ==
    IF Len(s.items) = s.capacity
    THEN [s |-> s, exc |-> "Stack is full"]
    ELSE [s |-> [s EXCEPT !.items = Append(@, item)], exc |-> "none"]

Stack_pop(s) ==
    IF Len(s.items) = 0
    THEN [s |-> s, item |-> None, exc |-> "Stack is empty"]
    ELSE [s |-> [s EXCEPT !.items = SubSeq(@, 1, Len(@) - 1)],
          item |-> s.items[Len(s.items)], exc |-> "none"]

Stack_is_empty(s) == Len(s.items) = 0

Stack_is_full(s) == Len(s.items) = s.capacity

Stack_clear(s) == [s EXCEPT !.items = <<>>]

\* BSet: a set of positive integers up to its capacity.
BSet(capacity) == [elems |-> {}, capacity |-> capacity]

BSet_contains(set, item) == item \in set.elems

BSet_add(set, item) ==
    IF item <= 0
    THEN [set |-> set, exc |-> "TypeError"]
    ELSE IF item > set.capacity
         THEN [set |-> set, exc |-> "Set is full"]
         ELSE [set |-> [set EXCEPT !.elems = @ \cup {item}], exc |-> "none"]

BSet_remove(set, item) ==
    IF item <= 0
    THEN [set |-> set, exc |-> "TypeError"]
    ELSE IF item \notin set.elems
         THEN [set |-> set, exc |-> "KeyError"]
         ELSE [set |-> [set EXCEPT !.elems = @ \ {item}], exc |-> "none"]

\* ArraySortedList of ListItem(value, key): items in ascending key order.
ListItem(value, key) == [value |-> value, key |-> key]

SortedList_add(list, item) ==
    LET below == Cardinality({i \in 1..Len(list) :
                               NameRank(list[i].key) < NameRank(item.key)})
    IN  SubSeq(list, 1, below) \o <<item>> \o SubSeq(list, below + 1, Len(list))

----------------------------------------------------------------------------
(* SetLayerStore.  A call returns [self, ret, exc].                        *)

SetLayerStore_init == [color |-> NoColour, layer |-> None, inverted |-> FALSE]

\* Faulty variant of add: stores and reports a change without comparing.
SetLayerStore_add_Uncompared(self, layer) ==
    [self |-> [self EXCEPT !.layer = layer], ret |-> TRUE, exc |-> "none"]

SetLayerStore_add(self, layer) ==
    IF layer # self.layer
    THEN [self |-> [self EXCEPT !.layer = layer], ret |-> TRUE, exc |-> "none"]
    ELSE [self |-> self, ret |-> FALSE, exc |-> "none"]

\* Faulty variant of get_color: inverts the start colour, then applies the
\* layer.
SetLayerStore_get_color_InvertFirst(self, start, timestamp, x, y) ==
    LET first == IF self.inverted
                 THEN Apply(invert, start, timestamp, x, y)
                 ELSE start
        color == IF self.layer # None
                 THEN Apply(self.layer, first, timestamp, x, y)
                 ELSE first
    IN  [self |-> [self EXCEPT !.color = color], ret |-> color, exc |-> "none"]

SetLayerStore_get_color(self, start, timestamp, x, y) ==
    LET color ==
          IF self.inverted
          THEN IF self.layer # None
               THEN Apply(invert, Apply(self.layer, start, timestamp, x, y),
                          timestamp, x, y)
               ELSE Apply(invert, start, timestamp, x, y)
          ELSE IF self.layer # None
               THEN Apply(self.layer, start, timestamp, x, y)
               ELSE start
    IN  [self |-> [self EXCEPT !.color = color], ret |-> color, exc |-> "none"]

\* Faulty variant of erase: resets the whole store, the flag included.
SetLayerStore_erase_Reset(self, layer) ==
    IF layer # None
    THEN [self |-> [self EXCEPT !.layer = None, !.inverted = FALSE],
          ret |-> TRUE, exc |-> "none"]
    ELSE [self |-> self, ret |-> FALSE, exc |-> "none"]

SetLayerStore_erase(self, layer) ==
    IF layer # None
    THEN [self |-> [self EXCEPT !.layer = None], ret |-> TRUE, exc |-> "none"]
    ELSE [self |-> self, ret |-> FALSE, exc |-> "none"]

\* Faulty variant of special: switches inversion on, never off.
SetLayerStore_special_OnOnly(self) ==
    [self |-> [self EXCEPT !.inverted = TRUE], ret |-> None, exc |-> "none"]

SetLayerStore_special(self) ==
    IF ~self.inverted
    THEN [self |-> [self EXCEPT !.inverted = TRUE], ret |-> None, exc |-> "none"]
    ELSE [self |-> [self EXCEPT !.inverted = FALSE], ret |-> None, exc |-> "none"]

----------------------------------------------------------------------------
(* AdditiveLayerStore *)

AdditiveLayerStore_init ==
    [layer_queue |-> CircularQueue(MaxQueue),
     layer_stack |-> ArrayStack(MaxQueue)]

\* Faulty variant of add: a layer already queued is not queued again.
AdditiveLayerStore_add_NoDuplicates(self, layer) ==
    IF \E i \in 1..Len(self.layer_queue.items) : self.layer_queue.items[i] = layer
    THEN [self |-> self, ret |-> FALSE, exc |-> "none"]
    ELSE LET a == Queue_append(self.layer_queue, layer)
         IN  IF a.exc # "none"
             THEN [self |-> self, ret |-> None, exc |-> a.exc]
             ELSE [self |-> [self EXCEPT !.layer_queue = a.q],
                   ret |-> TRUE, exc |-> "none"]

\* Faulty variant of add: a full queue drops its oldest layer to make room.
AdditiveLayerStore_add_DropOldest(self, layer) ==
    LET room == IF Queue_is_full(self.layer_queue)
                THEN Queue_serve(self.layer_queue).q
                ELSE self.layer_queue
        a == Queue_append(room, layer)
    IN  [self |-> [self EXCEPT !.layer_queue = a.q], ret |-> TRUE,
         exc |-> a.exc]

AdditiveLayerStore_add(self, layer) ==
    LET added_queue_length == Queue_len(self.layer_queue) + 1
        a == Queue_append(self.layer_queue, layer)
        after == [self EXCEPT !.layer_queue = a.q]
    IN  IF a.exc # "none"
        THEN [self |-> after, ret |-> None, exc |-> a.exc]
        ELSE IF Queue_len(after.layer_queue) = added_queue_length
             THEN [self |-> after, ret |-> TRUE, exc |-> "none"]
             ELSE [self |-> after, ret |-> FALSE, exc |-> "none"]

\* The loop of get_color: n iterations left, each serve / apply / append.
RECURSIVE get_color_loop(_, _, _, _, _, _)
get_color_loop(q, color, n, timestamp, x, y) ==
    IF n = 0
    THEN [q |-> q, color |-> color, exc |-> "none"]
    ELSE LET s == Queue_serve(q)
         IN  IF s.exc # "none"
             THEN [q |-> s.q, color |-> color, exc |-> s.exc]
             ELSE LET c == Apply(s.item, color, timestamp, x, y)
                      a == Queue_append(s.q, s.item)
                  IN  IF a.exc # "none"
                      THEN [q |-> a.q, color |-> c, exc |-> a.exc]
                      ELSE get_color_loop(a.q, c, n - 1, timestamp, x, y)

\* Faulty variant of get_color: the loop runs one iteration short.
AdditiveLayerStore_get_color_OneShort(self, start, timestamp, x, y) ==
    IF Queue_is_empty(self.layer_queue)
    THEN [self |-> self, ret |-> start, exc |-> "none"]
    ELSE LET r == get_color_loop(self.layer_queue, start,
                                 Queue_len(self.layer_queue) - 1,
                                 timestamp, x, y)
         IN  [self |-> [self EXCEPT !.layer_queue = r.q], ret |-> r.color,
              exc |-> r.exc]

AdditiveLayerStore_get_color(self, start, timestamp, x, y) ==
    IF Queue_is_empty(self.layer_queue)
    THEN [self |-> self, ret |-> start, exc |-> "none"]
    ELSE LET r == get_color_loop(self.layer_queue, start,
                                 Queue_len(self.layer_queue), timestamp, x, y)
             after == [self EXCEPT !.layer_queue = r.q]
         IN  IF r.exc # "none"
             THEN [self |-> after, ret |-> None, exc |-> r.exc]
             ELSE [self |-> after, ret |-> r.color, exc |-> "none"]

\* Faulty variant of erase: an empty store answers False instead of raising.
AdditiveLayerStore_erase_Silent(self, layer) ==
    IF Queue_is_empty(self.layer_queue)
    THEN [self |-> self, ret |-> FALSE, exc |-> "none"]
    ELSE [self |-> [self EXCEPT !.layer_queue = Queue_serve(@).q],
          ret |-> TRUE, exc |-> "none"]

AdditiveLayerStore_erase(self, layer) ==
    LET erased_queue_length == Queue_len(self.layer_queue) - 1
        s == Queue_serve(self.layer_queue)
        after == [self EXCEPT !.layer_queue = s.q]
    IN  IF s.exc # "none"
        THEN [self |-> after, ret |-> None, exc |-> s.exc]
        ELSE IF Queue_len(after.layer_queue) = erased_queue_length
             THEN [self |-> after, ret |-> TRUE, exc |-> "none"]
             ELSE [self |-> after, ret |-> FALSE, exc |-> "none"]

\* First loop of special: n times serve from the queue, push on the stack.
RECURSIVE special_drain(_, _)
special_drain(self, n) ==
    IF n = 0
    THEN [self |-> self, exc |-> "none"]
    ELSE LET s == Queue_serve(self.layer_queue)
         IN  IF s.exc # "none"
             THEN [self |-> self, exc |-> s.exc]
             ELSE LET p == Stack_push(self.layer_stack, s.item)
                      served == [self EXCEPT !.layer_queue = s.q]
                  IN  IF p.exc # "none"
                      THEN [self |-> served, exc |-> p.exc]
                      ELSE special_drain(
                             [served EXCEPT !.layer_stack = p.s], n - 1)

\* Second loop of special: n times pop from the stack, append to the queue.
RECURSIVE special_refill(_, _)
special_refill(self, n) ==
    IF n = 0
    THEN [self |-> self, exc |-> "none"]
    ELSE LET p == Stack_pop(self.layer_stack)
         IN  IF p.exc # "none"
             THEN [self |-> self, exc |-> p.exc]
             ELSE LET a == Queue_append(self.layer_queue, p.item)
                      popped == [self EXCEPT !.layer_stack = p.s]
                  IN  IF a.exc # "none"
                      THEN [self |-> popped, exc |-> a.exc]
                      ELSE special_refill(
                             [popped EXCEPT !.layer_queue = a.q], n - 1)

\* Faulty variant of special: moves the first layer to the end only.
AdditiveLayerStore_special_Rotate(self) ==
    IF Queue_is_empty(self.layer_queue)
    THEN [self |-> self, ret |-> None, exc |-> "none"]
    ELSE LET s == Queue_serve(self.layer_queue)
         IN  [self |-> [self EXCEPT !.layer_queue = Queue_append(s.q, s.item).q],
              ret |-> None, exc |-> "none"]

\* Faulty variant of special: the last layer pushed is left on the stack.
AdditiveLayerStore_special_KeepsOne(self) ==
    LET d == special_drain(self, Queue_len(self.layer_queue))
        n == Stack_len(d.self.layer_stack)
        r == special_refill(d.self, IF n = 0 THEN 0 ELSE n - 1)
    IN  [self |-> r.self, ret |-> None, exc |-> r.exc]

AdditiveLayerStore_special(self) ==
    LET d == special_drain(self, Queue_len(self.layer_queue))
    IN  IF d.exc # "none"
        THEN [self |-> d.self, ret |-> None, exc |-> d.exc]
        ELSE LET r == special_refill(d.self, Stack_len(d.self.layer_stack))
             IN  [self |-> r.self, ret |-> None, exc |-> r.exc]

----------------------------------------------------------------------------
(* SequenceLayerStore *)

\* Capacity given to the BSet in SequenceLayerStore.__init__.
BSetCapacity == 9

SequenceLayerStore_init ==
    [layer_set |-> BSet(BSetCapacity), is_specialized |-> FALSE]

\* Faulty variant of add: the catalogue index is used without the + 1.
SequenceLayerStore_add_NoOffset(self, layer) ==
    LET layer_index == LayerIndex(layer)
    IN  IF BSet_contains(self.layer_set, layer_index)
        THEN [self |-> self, ret |-> FALSE, exc |-> "none"]
        ELSE LET a == BSet_add(self.layer_set, layer_index)
             IN  IF a.exc # "none"
                 THEN [self |-> self, ret |-> None, exc |-> a.exc]
                 ELSE [self |-> [self EXCEPT !.layer_set = a.set],
                       ret |-> TRUE, exc |-> "none"]

SequenceLayerStore_add(self, layer) ==
    LET layer_index == LayerIndex(layer) + 1
    IN  IF BSet_contains(self.layer_set, layer_index)
        THEN [self |-> self, ret |-> FALSE, exc |-> "none"]
        ELSE LET a == BSet_add(self.layer_set, layer_index)
                 after == [self EXCEPT !.layer_set = a.set]
             IN  IF a.exc # "none"
                 THEN [self |-> after, ret |-> None, exc |-> a.exc]
                 ELSE [self |-> after, ret |-> TRUE, exc |-> "none"]

\* The loop of get_color over layer_list[i..].
RECURSIVE sequence_get_color_loop(_, _, _, _, _, _)
sequence_get_color_loop(self, i, color, timestamp, x, y) ==
    IF i > Len(get_layers)
    THEN color
    ELSE LET each_layer == get_layers[i]
         IN  IF /\ each_layer # None
                /\ BSet_contains(self.layer_set, LayerIndex(each_layer) + 1)
             THEN sequence_get_color_loop(self, i + 1,
                    Apply(each_layer, color, timestamp, x, y), timestamp, x, y)
             ELSE sequence_get_color_loop(self, i + 1, color, timestamp, x, y)

\* Faulty variant of get_color: the catalogue is walked from its last entry
\* to its first.
RECURSIVE sequence_get_color_loop_Backwards(_, _, _, _, _, _)
sequence_get_color_loop_Backwards(self, i, color, timestamp, x, y) ==
    IF i < 1
    THEN color
    ELSE LET each_layer == get_layers[i]
         IN  IF /\ each_layer # None
                /\ BSet_contains(self.layer_set, LayerIndex(each_layer) + 1)
             THEN sequence_get_color_loop_Backwards(self, i - 1,
                    Apply(each_layer, color, timestamp, x, y), timestamp, x, y)
             ELSE sequence_get_color_loop_Backwards(self, i - 1, color,
                                                    timestamp, x, y)

SequenceLayerStore_get_color_Backwards(self, start, timestamp, x, y) ==
    [self |-> self,
     ret |-> sequence_get_color_loop_Backwards(self, Len(get_layers), start,
                                               timestamp, x, y),
     exc |-> "none"]

SequenceLayerStore_get_color(self, start, timestamp, x, y) ==
    [self |-> self,
     ret |-> sequence_get_color_loop(self, 1, start, timestamp, x, y),
     exc |-> "none"]

\* Faulty variant of erase: removes without asking whether the layer is in
\* the set.
SequenceLayerStore_erase_Unchecked(self, layer) ==
    LET r == BSet_remove(self.layer_set, LayerIndex(layer) + 1)
    IN  IF r.exc # "none"
        THEN [self |-> self, ret |-> None, exc |-> r.exc]
        ELSE [self |-> [self EXCEPT !.layer_set = r.set],
              ret |-> TRUE, exc |-> "none"]

SequenceLayerStore_erase(self, layer) ==
    LET layer_index == LayerIndex(layer) + 1
    IN  IF ~BSet_contains(self.layer_set, layer_index)
        THEN [self |-> self, ret |-> FALSE, exc |-> "none"]
        ELSE LET r == BSet_remove(self.layer_set, layer_index)
                 after == [self EXCEPT !.layer_set = r.set]
             IN  IF r.exc # "none"
                 THEN [self |-> after, ret |-> None, exc |-> r.exc]
                 ELSE [self |-> after, ret |-> TRUE, exc |-> "none"]

\* The first loop of special: the members of layer_list[i..] added to the
\* sorted list under their names.
RECURSIVE special_sorted(_, _, _)
special_sorted(self, i, layer_sortedList) ==
    IF i > Len(get_layers)
    THEN layer_sortedList
    ELSE LET each_layer == get_layers[i]
         IN  IF /\ each_layer # None
                /\ BSet_contains(self.layer_set, LayerIndex(each_layer) + 1)
             THEN special_sorted(self, i + 1,
                    SortedList_add(layer_sortedList,
                                   ListItem(each_layer, each_layer)))
             ELSE special_sorted(self, i + 1, layer_sortedList)

\* Faulty variant of special: an even count takes the upper middle name.
SequenceLayerStore_special_UpperMiddle(self) ==
    LET layer_sortedList == special_sorted(self, 1, <<>>)
    IN  IF Len(layer_sortedList) # 0
        THEN LET chosen_index == Len(layer_sortedList) \div 2
                 removed_item_index ==
                   LayerIndex(layer_sortedList[chosen_index + 1].value)
                 r == BSet_remove(self.layer_set, removed_item_index + 1)
             IN  [self |-> [self EXCEPT !.layer_set = r.set],
                  ret |-> None, exc |-> r.exc]
        ELSE [self |-> self, ret |-> None, exc |-> "none"]

SequenceLayerStore_special(self) ==
    LET layer_sortedList == special_sorted(self, 1, <<>>)
    IN  IF Len(layer_sortedList) # 0
        THEN LET chosen_index ==
                   IF Len(layer_sortedList) % 2 = 0
                   THEN (Len(layer_sortedList) \div 2) - 1
                   ELSE Len(layer_sortedList) \div 2
                 removed_item_index ==
                   LayerIndex(layer_sortedList[chosen_index + 1].value)
                 r == BSet_remove(self.layer_set, removed_item_index + 1)
             IN  [self |-> [self EXCEPT !.layer_set = r.set],
                  ret |-> None, exc |-> r.exc]
        ELSE [self |-> self, ret |-> None, exc |-> "none"]

----------------------------------------------------------------------------
(* The store object and its calls *)

\* One complete call: r is what the method computed from the current store.
Call(name, a, r) ==
    /\ store' = r.self
    /\ prev' = store
    /\ op' = name
    /\ prev_op' = op
    /\ args' = a
    /\ ret' = r.ret
    /\ exc' = r.exc
    /\ UNCHANGED <<policy, gridvars, undovars, replayvars>>

SetAdd ==
    /\ policy = "SET"
    /\ \E layer \in Layers :
         Call("add", layer, SetLayerStore_add(store, layer))

SetErase ==
    /\ policy = "SET"
    /\ \E layer \in Layers \cup {None} :
         Call("erase", layer, SetLayerStore_erase(store, layer))

SetGetColor ==
    /\ policy = "SET"
    /\ \E start \in StartColours, timestamp \in Timestamps,
          x \in Coords, y \in Coords :
         Call("get_color", <<start, timestamp, x, y>>,
              SetLayerStore_get_color(store, start, timestamp, x, y))

SetSpecial ==
    /\ policy = "SET"
    /\ Call("special", <<>>, SetLayerStore_special(store))

AdditiveAdd ==
    /\ policy = "ADD"
    /\ \E layer \in Layers :
         Call("add", layer, AdditiveLayerStore_add(store, layer))

AdditiveErase ==
    /\ policy = "ADD"
    /\ \E layer \in Layers \cup {None} :
         Call("erase", layer, AdditiveLayerStore_erase(store, layer))

AdditiveGetColor ==
    /\ policy = "ADD"
    /\ \E start \in StartColours, timestamp \in Timestamps,
          x \in Coords, y \in Coords :
         Call("get_color", <<start, timestamp, x, y>>,
              AdditiveLayerStore_get_color(store, start, timestamp, x, y))

AdditiveSpecial ==
    /\ policy = "ADD"
    /\ Call("special", <<>>, AdditiveLayerStore_special(store))

SequenceAdd ==
    /\ policy = "SEQUENCE"
    /\ \E layer \in Layers :
         Call("add", layer, SequenceLayerStore_add(store, layer))

SequenceErase ==
    /\ policy = "SEQUENCE"
    /\ \E layer \in Layers :
         Call("erase", layer, SequenceLayerStore_erase(store, layer))

SequenceGetColor ==
    /\ policy = "SEQUENCE"
    /\ \E start \in StartColours, timestamp \in Timestamps,
          x \in Coords, y \in Coords :
         Call("get_color", <<start, timestamp, x, y>>,
              SequenceLayerStore_get_color(store, start, timestamp, x, y))

SequenceSpecial ==
    /\ policy = "SEQUENCE"
    /\ Call("special", <<>>, SequenceLayerStore_special(store))

\* Grid.__init__ picks the class of the store from the draw style.
NewStore(draw_style) ==
    CASE draw_style = "SET" -> SetLayerStore_init
      [] draw_style = "ADD" -> AdditiveLayerStore_init
      [] draw_style = "SEQUENCE" -> SequenceLayerStore_init

\* No Grid object has been built.
NoGrid ==
    /\ grid = None
    /\ heap = <<>>
    /\ glast = None
    /\ calls = 0

\* No undo tracker is in use.
NoTracker ==
    /\ tracker = None
    /\ ulast = None

\* No replay tracker is in use.
NoReplay ==
    /\ replay = None
    /\ rlast = None
    /\ recorded = <<>>
    /\ played = <<>>

Init ==
    /\ NoGrid
    /\ NoTracker
    /\ NoReplay
    /\ policy \in {"SET", "ADD", "SEQUENCE"}
    /\ store = NewStore(policy)
    /\ prev = store
    /\ op = "init"
    /\ prev_op = "init"
    /\ args = <<>>
    /\ ret = None
    /\ exc = "none"

Next ==
    \/ SetAdd
    \/ SetErase
    \/ SetGetColor
    \/ SetSpecial
    \/ AdditiveAdd
    \/ AdditiveErase
    \/ AdditiveGetColor
    \/ AdditiveSpecial
    \/ SequenceAdd
    \/ SequenceErase
    \/ SequenceGetColor
    \/ SequenceSpecial

Spec == Init /\ [][Next]_vars

----------------------------------------------------------------------------
(* Grid (src/grid.py).  A store object on the heap is [cls, self]: its     *)
(* class and its fields.  A cell of the grid holds a reference (an index   *)
(* into the heap), as the ArrayR slots of the program do.                  *)

DRAW_STYLE_SET == "SET"
DRAW_STYLE_ADD == "ADD"
DRAW_STYLE_SEQUENCE == "SEQUENCE"
DRAW_STYLE_OPTIONS == <<DRAW_STYLE_SET, DRAW_STYLE_ADD, DRAW_STYLE_SEQUENCE>>

DEFAULT_BRUSH_SIZE == 2
MAX_BRUSH == 5
MIN_BRUSH == 0

\* SetLayerStore(), AdditiveLayerStore(), SequenceLayerStore()
NewObject(cls) == [cls |-> cls, self |-> NewStore(cls)]

\* The methods of the LayerStore interface, dispatched on the class of the
\* object; the result carries the object after the call.
Dispatch(obj, r) == [obj |-> [obj EXCEPT !.self = r.self], ret |-> r.ret,
                     exc |-> r.exc]

LayerStore_add(obj, layer) ==
    CASE obj.cls = "SET" -> Dispatch(obj, SetLayerStore_add(obj.self, layer))
      [] obj.cls = "ADD" ->
           Dispatch(obj, AdditiveLayerStore_add(obj.self, layer))
      [] obj.cls = "SEQUENCE" ->
           Dispatch(obj, SequenceLayerStore_add(obj.self, layer))

LayerStore_erase(obj, layer) ==
    CASE obj.cls = "SET" -> Dispatch(obj, SetLayerStore_erase(obj.self, layer))
      [] obj.cls = "ADD" ->
           Dispatch(obj, AdditiveLayerStore_erase(obj.self, layer))
      [] obj.cls = "SEQUENCE" ->
           Dispatch(obj, SequenceLayerStore_erase(obj.self, layer))

LayerStore_get_color(obj, start, timestamp, x, y) ==
    CASE obj.cls = "SET" ->
           Dispatch(obj, SetLayerStore_get_color(obj.self, start, timestamp, x, y))
      [] obj.cls = "ADD" ->
           Dispatch(obj, AdditiveLayerStore_get_color(obj.self, start,
                                                      timestamp, x, y))
      [] obj.cls = "SEQUENCE" ->
           Dispatch(obj, SequenceLayerStore_get_color(obj.self, start,
                                                      timestamp, x, y))

LayerStore_special(obj) ==
    CASE obj.cls = "SET" -> Dispatch(obj, SetLayerStore_special(obj.self))
      [] obj.cls = "ADD" -> Dispatch(obj, AdditiveLayerStore_special(obj.self))
      [] obj.cls = "SEQUENCE" ->
           Dispatch(obj, SequenceLayerStore_special(obj.self))

\* Faulty variant of __init__: one store object is built and every cell
\* refers to it.
Grid_init_SharedStore(draw_style, x, y) ==
    [grid |-> [draw_style |-> draw_style, x_size |-> x, y_size |-> y,
               grid |-> [row \in 0..(x - 1) |-> [column \in 0..(y - 1) |-> 1]],
               brush_size |-> DEFAULT_BRUSH_SIZE],
     heap |-> <<NewObject(draw_style)>>]

\* Faulty variant of __init__: the draw style is not consulted.
Grid_init_AlwaysSet(draw_style, x, y) ==
    [grid |-> [draw_style |-> draw_style, x_size |-> x, y_size |-> y,
               grid |-> [row \in 0..(x - 1) |->
                           [column \in 0..(y - 1) |-> row * y + column + 1]],
               brush_size |-> DEFAULT_BRUSH_SIZE],
     heap |-> [i \in 1..(x * y) |-> NewObject(DRAW_STYLE_SET)]]

\* Grid.__init__: the nested loops build one new store object per cell, in
\* row-major order, of the class the draw style selects.
Grid_init(draw_style, x, y) ==
    [grid |-> [draw_style |-> draw_style, x_size |-> x, y_size |-> y,
               grid |-> [row \in 0..(x - 1) |->
                           [column \in 0..(y - 1) |-> row * y + column + 1]],
               brush_size |-> DEFAULT_BRUSH_SIZE],
     heap |-> [i \in 1..(x * y) |->
                 NewObject(CASE draw_style = DRAW_STYLE_OPTIONS[1] -> "SET"
                             [] draw_style = DRAW_STYLE_OPTIONS[2] -> "ADD"
                             [] draw_style = DRAW_STYLE_OPTIONS[3] -> "SEQUENCE")]]

\* Grid.__getitem__ twice: the reference held at grid[row][column].
Grid_getitem(self, row, column) == self.grid[row][column]

\* The loops of Grid.special from the k-th cell (row-major) on: special() on
\* the store each cell refers to; an exception ends the walk.
RECURSIVE special_walk(_, _, _, _)
special_walk(self, h, k, visited) ==
    IF k >= self.x_size * self.y_size
    THEN [heap |-> h, visited |-> visited, exc |-> "none"]
    ELSE LET row == k \div self.y_size
             column == k % self.y_size
             ref == Grid_getitem(self, row, column)
             r == LayerStore_special(h[ref])
             after == [h EXCEPT ![ref] = r.obj]
             seen == Append(visited, <<row, column>>)
         IN  IF r.exc # "none"
             THEN [heap |-> after, visited |-> seen, exc |-> r.exc]
             ELSE special_walk(self, after, k + 1, seen)

\* Faulty variant of special: the walk starts at the second row.
Grid_special_SkipFirstRow(self, h) == special_walk(self, h, self.y_size, <<>>)

Grid_special(self, h) == special_walk(self, h, 0, <<>>)

\* The cells of a grid.
Cells(self) == (0..(self.x_size - 1)) \X (0..(self.y_size - 1))

\* Layers painted in the grid runs.
GridLayers == {"lighten", "invert"}

\* One complete call on the grid or on the store of one cell.
GridCall(name, cell, a, h, r, visited) ==
    /\ calls < MaxCalls
    /\ calls' = calls + 1
    /\ heap' = h
    /\ glast' = [op |-> name, cell |-> cell, args |-> a, ret |-> r.ret,
                 exc |-> r.exc, heap |-> heap, visited |-> visited,
                 brush_size |-> grid.brush_size]
    /\ UNCHANGED <<grid, storevars, undovars, replayvars>>

CellAdd ==
    \E cell \in Cells(grid), layer \in GridLayers :
       LET ref == Grid_getitem(grid, cell[1], cell[2])
           r == LayerStore_add(heap[ref], layer)
       IN  GridCall("add", cell, layer, [heap EXCEPT ![ref] = r.obj], r, <<>>)

CellErase ==
    \E cell \in Cells(grid), layer \in GridLayers :
       LET ref == Grid_getitem(grid, cell[1], cell[2])
           r == LayerStore_erase(heap[ref], layer)
       IN  GridCall("erase", cell, layer, [heap EXCEPT ![ref] = r.obj], r, <<>>)

\* The cell's store is asked for the colour of its own square.
CellGetColor ==
    \E cell \in Cells(grid), start \in StartColours, timestamp \in Timestamps :
       LET ref == Grid_getitem(grid, cell[1], cell[2])
           r == LayerStore_get_color(heap[ref], start, timestamp,
                                     cell[1], cell[2])
       IN  GridCall("get_color", cell, <<start, timestamp, cell[1], cell[2]>>,
                    [heap EXCEPT ![ref] = r.obj], r, <<>>)

CellSpecial ==
    \E cell \in Cells(grid) :
       LET ref == Grid_getitem(grid, cell[1], cell[2])
           r == LayerStore_special(heap[ref])
       IN  GridCall("special", cell, <<>>, [heap EXCEPT ![ref] = r.obj], r, <<>>)

GridSpecial ==
    \E r \in {Grid_special(grid, heap)} :
       GridCall("Grid.special", None, <<>>, r.heap,
                [ret |-> None, exc |-> r.exc], r.visited)

\* No single store object is under test.
NoStore ==
    /\ policy = None
    /\ store = None
    /\ prev = None
    /\ op = "init"
    /\ prev_op = "init"
    /\ args = <<>>
    /\ ret = None
    /\ exc = "none"

GridInit ==
    /\ NoStore
    /\ NoTracker
    /\ NoReplay
    /\ \E i \in 1..Len(DRAW_STYLE_OPTIONS), x \in 1..MaxGridX, y \in 1..MaxGridY :
         LET g == Grid_init(DRAW_STYLE_OPTIONS[i], x, y)
         IN  /\ grid = g.grid
             /\ heap = g.heap
    /\ glast = [op |-> "init", cell |-> None, args |-> <<>>, ret |-> None,
                exc |-> "none", heap |-> heap, visited |-> <<>>,
                brush_size |-> grid.brush_size]
    /\ calls = 0

GridNext ==
    \/ CellAdd
    \/ CellErase
    \/ CellGetColor
    \/ CellSpecial
    \/ GridSpecial

GridSpec == GridInit /\ [][GridNext]_vars

\* Faulty variant of increase_brush_size: MAX_BRUSH itself may be exceeded.
Grid_increase_brush_size_Inclusive(self) ==
    IF self.brush_size <= MAX_BRUSH
    THEN [self EXCEPT !.brush_size = @ + 1]
    ELSE self

Grid_increase_brush_size(self) ==
    IF self.brush_size < MAX_BRUSH
    THEN [self EXCEPT !.brush_size = @ + 1]
    ELSE self

Grid_decrease_brush_size(self) ==
    IF self.brush_size > MIN_BRUSH
    THEN [self EXCEPT !.brush_size = @ - 1]
    ELSE self

\* One complete call of a brush method; the brush size is bounded by the
\* methods themselves, so these calls are not counted.
BrushCall(name, self) ==
    /\ grid' = self
    /\ glast' = [op |-> name, cell |-> None, args |-> <<>>, ret |-> None,
                 exc |-> "none", heap |-> heap, visited |-> <<>>,
                 brush_size |-> grid.brush_size]
    /\ UNCHANGED <<heap, calls, storevars, undovars, replayvars>>

IncreaseBrushSize ==
    \E self \in {Grid_increase_brush_size(grid)} :
       BrushCall("increase_brush_size", self)

DecreaseBrushSize ==
    \E self \in {Grid_decrease_brush_size(grid)} :
       BrushCall("decrease_brush_size", self)

\* The brush methods, with Grid.special() as the other method of Grid that
\* takes no argument.
BrushNext ==
    \/ IncreaseBrushSize
    \/ DecreaseBrushSize
    \/ GridSpecial

BrushSpec == GridInit /\ [][BrushNext]_vars

----------------------------------------------------------------------------
(* UndoTracker (src/undo.py).  The two stacks are attributes of the class. *)
(* A PaintAction is known by its identity; undo_apply and redo_apply are   *)
(* recorded as the calls the tracker makes on the grid.                    *)

PaintActions == 1..NumActions

\* None, where a PaintAction may be returned.
NoAction == 0

\* The UndoTracker objects.  The class defines no __init__ and no method
\* assigns self.history_stack or self.undo_stack, so an object has no
\* attributes of its own: self.history_stack and self.undo_stack are the
\* attributes of the class, whichever object the method is called on.
Trackers == 1..NumTrackers

\* The class body of UndoTracker.
UndoTracker_class ==
    [history_stack |-> ArrayStack(MaxHistory),
     undo_stack |-> ArrayStack(MaxHistory)]

\* The stacks a method reaches through the object self, given the class
\* attributes cls: the lookup of self.history_stack and self.undo_stack
\* falls through to the class.
Stacks(self, cls) == cls

\* n times s.pop(); an exception ends the loop.
RECURSIVE pop_times(_, _)
pop_times(s, n) ==
    IF n = 0
    THEN [s |-> s, exc |-> "none"]
    ELSE LET r == Stack_pop(s)
         IN  IF r.exc # "none" THEN [s |-> r.s, exc |-> r.exc]
                               ELSE pop_times(r.s, n - 1)

\* Faulty variant of add_action: the length of undo_stack is read before it
\* is cleared, so as many actions as were undone are popped off the history.
UndoTracker_add_action_PopsHistory(cls, action) ==
    LET popped == pop_times(cls.history_stack, Stack_len(cls.undo_stack))
        pushed == Stack_push(popped.s, action)
    IN  [cls |-> [history_stack |-> pushed.s,
                  undo_stack |-> Stack_clear(cls.undo_stack)],
         ret |-> NoAction, exc |-> pushed.exc, applied |-> <<>>]

\* add_action: the test of is_full() does nothing; a non-empty undo_stack
\* is cleared and history_stack is popped len(undo_stack) times, the length
\* being read after the clear; then the action is pushed.
UndoTracker_add_action(cls, action) ==
    LET redoable == ~Stack_is_empty(cls.undo_stack)
        undo_stack == IF redoable THEN Stack_clear(cls.undo_stack)
                                  ELSE cls.undo_stack
        popped == IF redoable
                  THEN pop_times(cls.history_stack, Stack_len(undo_stack))
                  ELSE [s |-> cls.history_stack, exc |-> "none"]
        pushed == Stack_push(popped.s, action)
    IN  IF popped.exc # "none"
        THEN [cls |-> [history_stack |-> popped.s, undo_stack |-> undo_stack],
              ret |-> NoAction, exc |-> popped.exc, applied |-> <<>>]
        ELSE [cls |-> [history_stack |-> pushed.s, undo_stack |-> undo_stack],
              ret |-> NoAction, exc |-> pushed.exc, applied |-> <<>>]

\* Faulty variant of undo: the action is not kept for redo.
UndoTracker_undo_Forgets(cls) ==
    IF Stack_is_empty(cls.history_stack)
    THEN [cls |-> cls, ret |-> NoAction, exc |-> "none", applied |-> <<>>]
    ELSE LET popped == Stack_pop(cls.history_stack)
         IN  [cls |-> [cls EXCEPT !.history_stack = popped.s],
              ret |-> popped.item, exc |-> "none",
              applied |-> << <<"undo_apply", popped.item>> >>]

\* undo: nothing on an empty history; otherwise the top of history_stack is
\* popped, pushed onto undo_stack, undo_apply(grid) is called on it and it
\* is returned.
UndoTracker_undo(cls) ==
    IF Stack_is_empty(cls.history_stack)
    THEN [cls |-> cls, ret |-> NoAction, exc |-> "none", applied |-> <<>>]
    ELSE LET popped == Stack_pop(cls.history_stack)
             undid_action == popped.item
             pushed == Stack_push(cls.undo_stack, undid_action)
             after == [history_stack |-> popped.s, undo_stack |-> pushed.s]
         IN  IF pushed.exc # "none"
             THEN [cls |-> after, ret |-> NoAction, exc |-> pushed.exc,
                   applied |-> <<>>]
             ELSE [cls |-> after, ret |-> undid_action, exc |-> "none",
                   applied |-> << <<"undo_apply", undid_action>> >>]

\* Faulty variant of redo: the oldest undone action is taken.
UndoTracker_redo_Oldest(cls) ==
    IF Stack_is_empty(cls.undo_stack)
    THEN [cls |-> cls, ret |-> NoAction, exc |-> "none", applied |-> <<>>]
    ELSE LET redid_action == Head(cls.undo_stack.items)
             pushed == Stack_push(cls.history_stack, redid_action)
         IN  [cls |-> [history_stack |-> pushed.s,
                       undo_stack |-> [cls.undo_stack EXCEPT
                                         !.items = Tail(@)]],
              ret |-> redid_action, exc |-> pushed.exc,
              applied |-> << <<"redo_apply", redid_action>> >>]

\* redo: nothing on an empty undo_stack; otherwise its top is popped, pushed
\* onto history_stack, redo_apply(grid) is called on it and it is returned.
UndoTracker_redo(cls) ==
    IF Stack_is_empty(cls.undo_stack)
    THEN [cls |-> cls, ret |-> NoAction, exc |-> "none", applied |-> <<>>]
    ELSE LET popped == Stack_pop(cls.undo_stack)
             redid_action == popped.item
             pushed == Stack_push(cls.history_stack, redid_action)
             after == [history_stack |-> pushed.s, undo_stack |-> popped.s]
         IN  IF pushed.exc # "none"
             THEN [cls |-> after, ret |-> NoAction, exc |-> pushed.exc,
                   applied |-> <<>>]
             ELSE [cls |-> after, ret |-> redid_action, exc |-> "none",
                   applied |-> << <<"redo_apply", redid_action>> >>]

\* One complete call on the tracker object self.
UndoCall(self, name, action, r) ==
    /\ tracker' = r.cls
    /\ ulast' = [self |-> self, op |-> name, action |-> action, ret |-> r.ret,
                 exc |-> r.exc, before |-> tracker, applied |-> r.applied]
    /\ UNCHANGED <<storevars, gridvars, replayvars>>

AddAction ==
    \E self \in Trackers, action \in PaintActions :
       LET r == UndoTracker_add_action(Stacks(self, tracker), action)
       IN  UndoCall(self, "add_action", action, r)

Undo ==
    \E self \in Trackers :
       \E r \in {UndoTracker_undo(Stacks(self, tracker))} :
          UndoCall(self, "undo", NoAction, r)

Redo ==
    \E self \in Trackers :
       \E r \in {UndoTracker_redo(Stacks(self, tracker))} :
          UndoCall(self, "redo", NoAction, r)

UndoInit ==
    /\ NoStore
    /\ NoGrid
    /\ NoReplay
    /\ tracker = UndoTracker_class
    /\ ulast = [self |-> 1, op |-> "init", action |-> NoAction,
                ret |-> NoAction,
                exc |-> "none", before |-> tracker, applied |-> <<>>]

UndoNext ==
    \/ AddAction
    \/ Undo
    \/ Redo

UndoSpec == UndoInit /\ [][UndoNext]_vars

----------------------------------------------------------------------------
(* ReplayTracker (src/replay.py).  undo_apply and redo_apply of a          *)
(* PaintAction are recorded as the calls the tracker makes on the grid.    *)

\* ActionBoolean(action, is_undo)
ActionBoolean(action, is_undo) == [action |-> action, is_undo |-> is_undo]

ActionBoolean_get_action(self) == self.action

ActionBoolean_get_is_undo(self) == self.is_undo

ReplayTracker_init == [replay_queue |-> CircularQueue(MaxReplay)]

ReplayTracker_start_replay(self) ==
    [self |-> self, ret |-> None, exc |-> "none", applied |-> <<>>]

ReplayTracker_add_action(self, action, is_undo) ==
    LET action_obj == ActionBoolean(action, is_undo)
        a == Queue_append(self.replay_queue, action_obj)
    IN  [self |-> [self EXCEPT !.replay_queue = a.q], ret |-> None,
         exc |-> a.exc, applied |-> <<>>]

\* Faulty variant of play_next_action: is_undo is not consulted.
ReplayTracker_play_next_action_AlwaysRedo(self) ==
    IF Queue_is_empty(self.replay_queue)
    THEN [self |-> self, ret |-> TRUE, exc |-> "none", applied |-> <<>>]
    ELSE LET s == Queue_serve(self.replay_queue)
         IN  [self |-> [self EXCEPT !.replay_queue = s.q], ret |-> FALSE,
              exc |-> "none",
              applied |-> << <<"redo_apply", ActionBoolean_get_action(s.item)>> >>]

\* play_next_action: True on an empty queue; otherwise the head is served,
\* undo_apply(grid) or redo_apply(grid) is called on its action according
\* to is_undo, and False is returned.
ReplayTracker_play_next_action(self) ==
    IF Queue_is_empty(self.replay_queue)
    THEN [self |-> self, ret |-> TRUE, exc |-> "none", applied |-> <<>>]
    ELSE LET s == Queue_serve(self.replay_queue)
             each_action_obj == s.item
             after == [self EXCEPT !.replay_queue = s.q]
         IN  IF ActionBoolean_get_is_undo(each_action_obj)
             THEN [self |-> after, ret |-> FALSE, exc |-> "none",
                   applied |-> << <<"undo_apply",
                                    ActionBoolean_get_action(each_action_obj)>> >>]
             ELSE [self |-> after, ret |-> FALSE, exc |-> "none",
                   applied |-> << <<"redo_apply",
                                    ActionBoolean_get_action(each_action_obj)>> >>]

\* One complete call on the replay tracker; queued is what the call added
\* to the queue.
ReplayCall(name, r, queued) ==
    /\ replay' = r.self
    /\ rlast' = [op |-> name, ret |-> r.ret, exc |-> r.exc, before |-> replay,
                 applied |-> r.applied]
    /\ recorded' = recorded \o queued
    /\ played' = played \o r.applied
    /\ UNCHANGED <<storevars, gridvars, undovars>>

ReplayAddAction ==
    \E action \in PaintActions, is_undo \in BOOLEAN :
       /\ Len(recorded) < MaxRecorded
       /\ LET r == ReplayTracker_add_action(replay, action, is_undo)
          IN  ReplayCall("add_action", r,
                         IF r.exc = "none"
                         THEN <<ActionBoolean(action, is_undo)>>
                         ELSE <<>>)

StartReplay ==
    \E r \in {ReplayTracker_start_replay(replay)} :
       ReplayCall("start_replay", r, <<>>)

PlayNextAction ==
    \E r \in {ReplayTracker_play_next_action(replay)} :
       ReplayCall("play_next_action", r, <<>>)

ReplayInit ==
    /\ NoStore
    /\ NoGrid
    /\ NoTracker
    /\ replay = ReplayTracker_init
    /\ rlast = [op |-> "init", ret |-> None, exc |-> "none",
                before |-> replay, applied |-> <<>>]
    /\ recorded = <<>>
    /\ played = <<>>

ReplayNext ==
    \/ ReplayAddAction
    \/ StartReplay
    \/ PlayNextAction

ReplaySpec == ReplayInit /\ [][ReplayNext]_vars

----------------------------------------------------------------------------
(* Vocabulary of the properties *)

\* The colour a sequence of layers gives, applied first to last.
RECURSIVE Compose(_, _, _, _, _)
Compose(layers, start, timestamp, x, y) ==
    IF layers = <<>>
    THEN start
    ELSE Compose(Tail(layers), Apply(Head(layers), start, timestamp, x, y),
                 timestamp, x, y)

Reverse(seq) == [i \in 1..Len(seq) |-> seq[Len(seq) + 1 - i]]

\* Head-to-tail content of an additive store's queue.
Held(self) == self.layer_queue.items

IsSet == policy = "SET"
IsAdditive == policy = "ADD"

----------------------------------------------------------------------------
(* SetLayerStore *)

\* C1: SetLayerStore.erase(L) with L not None leaves no layer held and
\* returns true if and only if a layer was held just before the call.
C1_SetEraseTrueIffHeld ==
    (IsSet /\ op = "erase" /\ args # None) =>
        /\ store.layer = None
        /\ ret = (prev.layer # None)

\* C2: SetLayerStore.add(L) makes L the held layer and returns true if and
\* only if L differs from what was held before (nothing held included); the
\* store holds at most one layer at any time.
C2_SetAddReplaces ==
    IsSet =>
        /\ store.layer \in Layers \cup {None}
        /\ op = "add" =>
             /\ store.layer = args
             /\ ret = (args # prev.layer)
             /\ exc = "none"

\* add(L1); add(L1): the second add has returned false.
C2_Witness ==
    IsSet /\ prev_op = "add" /\ op = "add" /\ ret = FALSE /\ store.layer = args

\* C3: SetLayerStore.get_color returns layer.apply(start, ...) if a layer is
\* held and start otherwise, with invert.apply on top exactly when inverted;
\* it changes neither the layer nor the flag, and the same call made again
\* returns the same colour.
C3_SetGetColor ==
    (IsSet /\ op = "get_color") =>
        LET start == args[1]
            timestamp == args[2]
            x == args[3]
            y == args[4]
            base == IF prev.layer # None
                    THEN Apply(prev.layer, start, timestamp, x, y)
                    ELSE start
            expected == IF prev.inverted
                        THEN Apply(invert, base, timestamp, x, y)
                        ELSE base
        IN  /\ exc = "none"
            /\ ret = expected
            /\ store.layer = prev.layer
            /\ store.inverted = prev.inverted
            /\ SetLayerStore_get_color(store, start, timestamp, x, y).ret = ret

\* get_color on an inverted store holding a layer that does not commute
\* with invert.
C3_Witness ==
    IsSet /\ op = "get_color" /\ store.inverted /\ store.layer = "lighten"
          /\ store.color # NoColour

\* C4: two special() calls in a row bring a SetLayerStore back to a state with
\* the flag and the layer it had before them, so get_color gives the same
\* colour as before for every input.
C4_SetSpecialTwice ==
    [][(IsSet /\ op = "special" /\ op' = "special") =>
         /\ store'.inverted = prev.inverted
         /\ store'.layer = prev.layer
         /\ \A start \in StartColours, timestamp \in Timestamps,
               x \in Coords, y \in Coords :
              SetLayerStore_get_color(store', start, timestamp, x, y).ret
                = SetLayerStore_get_color(prev, start, timestamp, x, y).ret
      ]_vars

\* Two special() calls in a row on a store that holds a layer.
C4_Witness ==
    IsSet /\ prev_op = "special" /\ op = "special" /\ store.layer # None

\* C5: add and erase never change the inverted flag; special never changes
\* the held layer.
C5_SetFlagAndLayerIndependent ==
    IsSet =>
        /\ op \in {"add", "erase"} => store.inverted = prev.inverted
        /\ op = "special" => store.layer = prev.layer

\* erase has cleared a held layer of an inverted store.
C5_Witness ==
    IsSet /\ op = "erase" /\ prev.layer # None /\ store.layer = None
          /\ store.inverted

----------------------------------------------------------------------------
(* AdditiveLayerStore *)

\* C6: AdditiveLayerStore.get_color folds the held layers over start in
\* head-to-tail order (start itself when empty), leaves the queue content and
\* order as before, at every length up to full capacity, and an immediate
\* second call gives the same colour.
C6_AdditiveGetColor ==
    (IsAdditive /\ op = "get_color") =>
        LET start == args[1]
            timestamp == args[2]
            x == args[3]
            y == args[4]
        IN  /\ exc = "none"
            /\ ret = Compose(Held(prev), start, timestamp, x, y)
            /\ Held(store) = Held(prev)
            /\ AdditiveLayerStore_get_color(store, start, timestamp, x, y).ret
                 = ret

\* get_color on a full queue whose order matters.
C6_Witness ==
    IsAdditive /\ op = "get_color" /\ Len(Held(store)) = MaxQueue
               /\ Held(store)[1] = "invert" /\ Held(store)[2] = "lighten"

\* C7: AdditiveLayerStore.erase(L) on a non-empty store removes the head
\* whatever L is, keeps the rest in order and returns true; on an empty store
\* it raises the queue's underflow and leaves the store unchanged.
C7_AdditiveErase ==
    (IsAdditive /\ op = "erase") =>
        IF Held(prev) # <<>>
        THEN /\ exc = "none"
             /\ ret = TRUE
             /\ Held(store) = Tail(Held(prev))
        ELSE /\ exc = "Queue is empty"
             /\ ret = None
             /\ store = prev

\* erase on an empty store has raised.
C7_Witness ==
    IsAdditive /\ op = "erase" /\ Held(prev) = <<>> /\ exc # "none"

\* C8: AdditiveLayerStore.special() replaces the head-to-tail order by its
\* reverse (nothing to do when empty); two calls in a row restore the order
\* and so the get_color output for every input.
C8_AdditiveSpecialReverses ==
    /\ [](IsAdditive /\ op = "special" =>
            /\ exc = "none"
            /\ Held(store) = Reverse(Held(prev)))
    /\ [][(IsAdditive /\ op = "special" /\ op' = "special") =>
            /\ Held(store') = Held(prev)
            /\ \A start \in StartColours, timestamp \in Timestamps,
                  x \in Coords, y \in Coords :
                 AdditiveLayerStore_get_color(store', start, timestamp, x, y).ret
                   = AdditiveLayerStore_get_color(prev, start, timestamp, x, y).ret
         ]_vars

\* Two special() calls in a row on a queue that differs from its reverse.
C8_Witness ==
    IsAdditive /\ prev_op = "special" /\ op = "special"
               /\ Len(Held(store)) = MaxQueue
               /\ Held(store) # Reverse(Held(store))

\* C9: AdditiveLayerStore.add(L) below capacity appends L at the tail, makes
\* the count one more and returns true, also when L is already held.
C9_AdditiveAddAppends ==
    (IsAdditive /\ op = "add"
                /\ Len(Held(prev)) < prev.layer_queue.capacity) =>
        /\ exc = "none"
        /\ ret = TRUE
        /\ Held(store) = Append(Held(prev), args)
        /\ Len(Held(store)) = Len(Held(prev)) + 1

\* add of a layer that was already held.
C9_Witness ==
    IsAdditive /\ op = "add" /\ exc = "none"
               /\ \E i \in 1..Len(Held(prev)) : Held(prev)[i] = args

\* C10: AdditiveLayerStore.add on a full queue raises the queue's overflow
\* and leaves content and order as before; any store call that raises leaves
\* the store as it was.
C10_FaultLeavesStoreUnchanged ==
    /\ (IsAdditive /\ op = "add"
                   /\ Len(Held(prev)) = prev.layer_queue.capacity) =>
          /\ exc = "Queue is full"
          /\ Held(store) = Held(prev)
    /\ exc # "none" => store = prev

\* add on a full queue has raised.
C10_Witness ==
    IsAdditive /\ op = "add" /\ exc = "Queue is full"
               /\ Len(Held(store)) = MaxQueue

----------------------------------------------------------------------------
(* SequenceLayerStore *)

IsSequence == policy = "SEQUENCE"

\* Catalogue indices (0-based) of the member layers of a sequence store.
Members(self) == {e - 1 : e \in self.layer_set.elems}

\* The catalogue layer with 0-based index i.
LayerAt(i) == get_layers[i + 1]

\* 0-based position of member i among the members S sorted by name.
NamePosition(S, i) ==
    Cardinality({j \in S : NameRank(LayerAt(j)) < NameRank(LayerAt(i))})

\* The member special() is to remove: the lower middle name of an even
\* count, the middle name of an odd count.
MedianPosition(k) == IF k % 2 = 0 THEN (k \div 2) - 1 ELSE k \div 2

\* The member layers in ascending catalogue index.
RECURSIVE InIndexOrder(_)
InIndexOrder(S) ==
    IF S = {}
    THEN <<>>
    ELSE LET least == CHOOSE i \in S : \A j \in S : i <= j
         IN  <<LayerAt(least)>> \o InIndexOrder(S \ {least})

\* C11: SequenceLayerStore.special() on k >= 1 members removes exactly the
\* member at position k/2 - 1 (k even) or floor(k/2) (k odd) of the members
\* sorted by name and nothing else; on no members it changes nothing and
\* raises nothing.  So each call lowers the count by one until it is zero.
C11_SequenceSpecialRemovesMedian ==
    (IsSequence /\ op = "special") =>
        LET S == Members(prev)
            k == Cardinality(S)
        IN  /\ exc = "none"
            /\ IF k = 0
               THEN store = prev
               ELSE /\ \E i \in S :
                         /\ NamePosition(S, i) = MedianPosition(k)
                         /\ Members(store) = S \ {i}
                    /\ Cardinality(Members(store)) = k - 1
                    /\ store.is_specialized = prev.is_specialized

\* special() on all four layers: black, invert, lighten, rainbow by name,
\* and invert (the lower middle) is gone.
C11_Witness ==
    IsSequence /\ op = "special" /\ Cardinality(Members(prev)) = 4
               /\ Members(store) = Members(prev) \ {LayerIndex("invert")}

\* C12: SequenceLayerStore.get_color applies exactly the member layers, each
\* once, in ascending catalogue index as a left fold over start; the result
\* is a function of the membership set alone, and the set is left unchanged.
C12_SequenceGetColorIndexOrder ==
    (IsSequence /\ op = "get_color") =>
        /\ exc = "none"
        /\ ret = Compose(InIndexOrder(Members(prev)),
                         args[1], args[2], args[3], args[4])
        /\ store = prev

\* get_color on members lighten and invert (indices 2, 3), which do not
\* commute: the colour is not the one of the opposite order.
C12_Witness ==
    IsSequence /\ op = "get_color"
               /\ Members(store) = {LayerIndex("lighten"), LayerIndex("invert")}
               /\ ret # Compose(<<"invert", "lighten">>,
                                args[1], args[2], args[3], args[4])

\* C13: SequenceLayerStore.add(L) returns true and makes L a member if its
\* index was not in the set, returns false and leaves the set unchanged if it
\* was, for every catalogue layer; a second add(L) changes nothing more.
C13_SequenceAddIdempotent ==
    (IsSequence /\ op = "add") =>
        LET i == LayerIndex(args)
        IN  /\ exc = "none"
            /\ IF i \notin Members(prev)
               THEN ret = TRUE /\ Members(store) = Members(prev) \cup {i}
               ELSE ret = FALSE /\ store = prev
            /\ SequenceLayerStore_add(store, args).self = store
            /\ SequenceLayerStore_add(store, args).ret = FALSE

\* add(L); add(L) with L the layer of catalogue index 0: the second add has
\* returned false.
C13_Witness ==
    IsSequence /\ prev_op = "add" /\ op = "add" /\ ret = FALSE
               /\ LayerIndex(args) = 0 /\ store = prev

\* C14: SequenceLayerStore.erase(L) returns true and removes L's index if it
\* was a member, returns false without raising and without changing the set
\* if it was not; the set's KeyError is never raised by erase.
C14_SequenceEraseNeverRaises ==
    (IsSequence /\ op = "erase") =>
        LET i == LayerIndex(args)
        IN  /\ exc = "none"
            /\ IF i \in Members(prev)
               THEN ret = TRUE /\ Members(store) = Members(prev) \ {i}
               ELSE ret = FALSE /\ store = prev

\* erase of a layer that is not a member of a non-empty store.
C14_Witness ==
    IsSequence /\ op = "erase" /\ ret = FALSE
               /\ Members(store) # {} /\ LayerIndex(args) \notin Members(prev)

----------------------------------------------------------------------------
(* Grid properties, checked under GridSpec *)

\* The store object the cell refers to, in heap h.
CellStore(h, cell) == h[Grid_getitem(grid, cell[1], cell[2])]

\* Number of positions of sequence q that hold e.
Occurrences(q, e) == Cardinality({k \in 1..Len(q) : q[k] = e})

CellOps == {"add", "erase", "get_color", "special"}

\* C15: a call of Grid.special() invokes special() on every cell of the
\* x-by-y grid exactly once, raises nothing, and leaves each cell's store in
\* the state that special() on that store alone gives from its state before
\* the call.
C15_GridSpecialBroadcast ==
    glast.op = "Grid.special" =>
       /\ glast.exc = "none"
       /\ Len(glast.visited) = grid.x_size * grid.y_size
       /\ \A cell \in Cells(grid) :
             /\ Occurrences(glast.visited, cell) = 1
             /\ CellStore(heap, cell)
                  = LayerStore_special(CellStore(glast.heap, cell)).obj

\* A Grid.special() on a grid of two cells that changed both stores, which
\* held different contents before it.
C15_Witness ==
    /\ glast.op = "Grid.special"
    /\ Cardinality(Cells(grid)) >= 2
    /\ \A cell \in Cells(grid) :
          CellStore(heap, cell) # CellStore(glast.heap, cell)
    /\ \E c1, c2 \in Cells(grid) :
          CellStore(glast.heap, c1).self # CellStore(glast.heap, c2).self

\* C16: in every state of a constructed Grid(draw_style, x, y), each cell
\* (row, column) with 0 <= row < x and 0 <= column < y refers to one store
\* object, no two cells refer to the same object, and every object is of the
\* class draw_style selects, before and after every operation.
C16_CellsHoldOneStoreOfThePolicy ==
    /\ DOMAIN grid.grid = 0..(grid.x_size - 1)
    /\ \A row \in 0..(grid.x_size - 1) :
          DOMAIN grid.grid[row] = 0..(grid.y_size - 1)
    /\ \A cell \in Cells(grid) :
          /\ Grid_getitem(grid, cell[1], cell[2]) \in DOMAIN heap
          /\ CellStore(heap, cell).cls = grid.draw_style
          /\ CellStore(glast.heap, cell).cls = grid.draw_style
          /\ DOMAIN CellStore(heap, cell).self
               = DOMAIN NewStore(grid.draw_style)
    /\ \A c1, c2 \in Cells(grid) :
          c1 # c2 => Grid_getitem(grid, c1[1], c1[2])
                       # Grid_getitem(grid, c2[1], c2[2])

\* A two-cell grid of additive stores after three calls, the last one a
\* Grid.special() that changed a store.
C16_Witness ==
    /\ grid.draw_style = DRAW_STYLE_ADD
    /\ Cardinality(Cells(grid)) >= 2
    /\ calls = MaxCalls
    /\ glast.op = "Grid.special"
    /\ heap # glast.heap

\* C17: an add, erase, get_color or special call on the store of one cell
\* leaves the state of every other cell's store, and the colour every other
\* cell's store returns, as they were before the call.
C17_CellsIndependent ==
    glast.op \in CellOps =>
       \A cell \in Cells(grid) \ {glast.cell} :
          /\ CellStore(heap, cell) = CellStore(glast.heap, cell)
          /\ \A start \in StartColours, timestamp \in Timestamps :
                LayerStore_get_color(CellStore(heap, cell), start, timestamp,
                                     cell[1], cell[2]).ret
                  = LayerStore_get_color(CellStore(glast.heap, cell), start,
                                         timestamp, cell[1], cell[2]).ret

\* A call that changed the store of one cell while another cell's store held
\* something other than a new store's contents.
C17_Witness ==
    /\ glast.op \in CellOps
    /\ glast.exc = "none"
    /\ CellStore(heap, glast.cell) # CellStore(glast.heap, glast.cell)
    /\ \E cell \in Cells(grid) \ {glast.cell} :
          CellStore(heap, cell) # NewObject(grid.draw_style)

----------------------------------------------------------------------------
(* UndoTracker properties, checked under UndoSpec *)

\* The top of a stack.
Top(s) == s.items[Len(s.items)]

\* C18: undo(grid) with a non-empty history calls undo_apply(grid) on the
\* most recently added or redone action and on nothing else, returns that
\* action, takes it off the history and makes it the next action to redo;
\* with an empty history it returns None, calls nothing on the grid and
\* leaves both stacks as they were.  Two undos in a row return the last two
\* actions of the history, the later one first.
C18_UndoOutcome ==
    ulast.op = "undo" =>
       /\ ulast.exc = "none"
       /\ IF Stack_is_empty(ulast.before.history_stack)
          THEN /\ ulast.ret = NoAction
               /\ ulast.applied = <<>>
               /\ tracker = ulast.before
          ELSE /\ ulast.ret = Top(ulast.before.history_stack)
               /\ ulast.applied = << <<"undo_apply", ulast.ret>> >>
               /\ ulast.before.history_stack.items
                    = Append(tracker.history_stack.items, ulast.ret)
               /\ tracker.undo_stack.items
                    = Append(ulast.before.undo_stack.items, ulast.ret)

C18_UndoReverseOrder ==
    (ulast.op = "undo" /\ ulast'.op = "undo"
       /\ Stack_len(ulast.before.history_stack) >= 2)
      => LET h == ulast.before.history_stack.items
         IN  /\ ulast.ret = h[Len(h)]
             /\ ulast'.ret = h[Len(h) - 1]

C18_Undo == []C18_UndoOutcome /\ [][C18_UndoReverseOrder]_vars

\* A second undo in a row that returned a different action from the first,
\* on a tracker that already had an undone action before them.
C18_Witness ==
    /\ ulast.op = "undo"
    /\ ulast.ret # NoAction
    /\ Stack_len(tracker.undo_stack) >= 2
    /\ tracker.undo_stack.items[Stack_len(tracker.undo_stack) - 1] # ulast.ret
    /\ ~Stack_is_empty(tracker.history_stack)

\* An undo on an empty history.
C18_WitnessEmpty ==
    /\ ulast.op = "undo"
    /\ Stack_is_empty(ulast.before.history_stack)
    /\ ~Stack_is_empty(tracker.undo_stack)

\* C19: redo(grid) with a non-empty undo stack calls redo_apply(grid) on
\* the most recently undone action and on nothing else, returns it, takes it
\* off the undo stack and puts it back on top of the history; with nothing
\* undone it returns None, calls nothing on the grid and leaves both stacks
\* as they were.  A redo right after an undo that undid something returns
\* the action the undo returned and leaves both stacks as they were before
\* the undo.
C19_RedoOutcome ==
    ulast.op = "redo" =>
       /\ ulast.exc = "none"
       /\ IF Stack_is_empty(ulast.before.undo_stack)
          THEN /\ ulast.ret = NoAction
               /\ ulast.applied = <<>>
               /\ tracker = ulast.before
          ELSE /\ ulast.ret = Top(ulast.before.undo_stack)
               /\ ulast.applied = << <<"redo_apply", ulast.ret>> >>
               /\ ulast.before.undo_stack.items
                    = Append(tracker.undo_stack.items, ulast.ret)
               /\ tracker.history_stack.items
                    = Append(ulast.before.history_stack.items, ulast.ret)

C19_RedoAfterUndo ==
    (ulast.op = "undo" /\ ulast.ret # NoAction /\ ulast'.op = "redo")
      => /\ ulast'.ret = ulast.ret
         /\ tracker' = ulast.before

C19_Redo == []C19_RedoOutcome /\ [][C19_RedoAfterUndo]_vars

\* A redo that brought back the later of two different undone actions.
C19_Witness ==
    /\ ulast.op = "redo"
    /\ ulast.ret # NoAction
    /\ ~Stack_is_empty(tracker.undo_stack)
    /\ Top(tracker.undo_stack) # ulast.ret
    /\ Stack_len(tracker.history_stack) >= 2

\* C20: add_action on a tracker whose history is at full capacity returns
\* without raising and leaves the history as it was.
C20_AddActionOnFullHistory ==
    (ulast.op = "add_action" /\ Stack_is_full(ulast.before.history_stack))
      => /\ ulast.exc = "none"
         /\ tracker.history_stack = ulast.before.history_stack

\* C21: a call of add_action, undo or redo on one tracker object leaves
\* what undo and redo on every other tracker object return and apply as it
\* was before the call.
C21_TrackersOwnTheirStacks ==
    ulast.op \in {"add_action", "undo", "redo"} =>
       \A other \in Trackers \ {ulast.self} :
          LET now == Stacks(other, tracker)
              before == Stacks(other, ulast.before)
          IN  /\ UndoTracker_undo(now).ret = UndoTracker_undo(before).ret
              /\ UndoTracker_undo(now).applied
                   = UndoTracker_undo(before).applied
              /\ UndoTracker_redo(now).ret = UndoTracker_redo(before).ret
              /\ UndoTracker_redo(now).applied
                   = UndoTracker_redo(before).applied

\* C24: add_action(a) on a tracker with undone actions raises nothing and
\* leaves the undo stack empty, so that redo returns None and applies
\* nothing; a is on top of the history, so that undo returns it, and below
\* it the history is what it was before the call.  This is the outcome of
\* every add_action that directly follows an undo.
C24_AddActionOutcome ==
    (ulast.op = "add_action" /\ ~Stack_is_empty(ulast.before.undo_stack)) =>
       /\ ulast.exc = "none"
       /\ Stack_is_empty(tracker.undo_stack)
       /\ UndoTracker_redo(tracker).ret = NoAction
       /\ UndoTracker_redo(tracker).applied = <<>>
       /\ UndoTracker_undo(tracker).ret = ulast.action
       /\ tracker.history_stack.items
            = Append(ulast.before.history_stack.items, ulast.action)

C24_AddActionAfterUndo ==
    (ulast.op = "undo" /\ ulast'.op = "add_action") =>
       /\ ulast'.exc = "none"
       /\ Stack_is_empty(tracker'.undo_stack)
       /\ tracker'.history_stack.items
            = Append(tracker.history_stack.items, ulast'.action)

C24_AddActionClearsRedo == []C24_AddActionOutcome /\ [][C24_AddActionAfterUndo]_vars

\* An add_action on a tracker with two undone actions and one action still
\* in the history, which is not the action added.
C24_Witness ==
    /\ ulast.op = "add_action"
    /\ Stack_len(ulast.before.undo_stack) >= 2
    /\ Stack_len(tracker.history_stack) = 2
    /\ tracker.history_stack.items[1] # ulast.action

----------------------------------------------------------------------------
(* Brush size, checked under BrushSpec *)

\* C23: the brush size of a Grid is DEFAULT_BRUSH_SIZE after construction
\* and stays within MIN_BRUSH..MAX_BRUSH; increase_brush_size leaves it
\* unchanged at MAX_BRUSH and otherwise adds 1, decrease_brush_size leaves it
\* unchanged at MIN_BRUSH and otherwise subtracts 1, and Grid.special()
\* does not touch it.
C23_BrushOutcome ==
    /\ MIN_BRUSH <= grid.brush_size
    /\ grid.brush_size <= MAX_BRUSH
    /\ glast.op = "init" => grid.brush_size = DEFAULT_BRUSH_SIZE
    /\ glast.op = "increase_brush_size" =>
          grid.brush_size = IF glast.brush_size = MAX_BRUSH
                            THEN glast.brush_size
                            ELSE glast.brush_size + 1
    /\ glast.op = "decrease_brush_size" =>
          grid.brush_size = IF glast.brush_size = MIN_BRUSH
                            THEN glast.brush_size
                            ELSE glast.brush_size - 1
    /\ glast.op = "Grid.special" => grid.brush_size = glast.brush_size

C23_BrushStep ==
    /\ grid'.brush_size - grid.brush_size \in {-1, 0, 1}
    /\ glast'.brush_size = grid.brush_size
    /\ [grid' EXCEPT !.brush_size = 0] = [grid EXCEPT !.brush_size = 0]

C23_BrushWithinLimits == []C23_BrushOutcome /\ [][C23_BrushStep]_vars

\* An increase_brush_size at MAX_BRUSH.
C23_Witness ==
    /\ glast.op = "increase_brush_size"
    /\ glast.brush_size = MAX_BRUSH
    /\ grid.brush_size = MAX_BRUSH

\* A decrease_brush_size at MIN_BRUSH.
C23_WitnessMin ==
    /\ glast.op = "decrease_brush_size"
    /\ glast.brush_size = MIN_BRUSH
    /\ grid.brush_size = MIN_BRUSH

----------------------------------------------------------------------------
(* AdditiveLayerStore: the scratch stack, checked under Spec *)

\* C25: between complete calls on an AdditiveLayerStore the scratch stack
\* has the capacity of the queue and is empty; special() raises nothing, a
\* full queue included; the number of queued layers grows by one on an add
\* that returns true, shrinks by one on an erase that returns true, and is
\* left as it was by get_color, by special and by every call that raises.
C25_ScratchStackTransient ==
    IsAdditive =>
       LET change == Queue_len(store.layer_queue) - Queue_len(prev.layer_queue)
       IN  /\ store.layer_stack.capacity = store.layer_queue.capacity
           /\ Stack_is_empty(store.layer_stack)
           /\ op = "special" => exc = "none"
           /\ (op = "add" /\ exc = "none" /\ ret = TRUE) => change = 1
           /\ (op = "erase" /\ exc = "none" /\ ret = TRUE) => change = -1
           /\ (op \in {"init", "get_color", "special"} \/ exc # "none")
                 => change = 0

\* A special() on a full queue, which filled the scratch stack to its
\* capacity and emptied it again.
C25_Witness ==
    /\ IsAdditive
    /\ op = "special"
    /\ exc = "none"
    /\ Queue_is_full(prev.layer_queue)
    /\ Queue_is_full(store.layer_queue)
    /\ Stack_is_empty(store.layer_stack)
    /\ store # prev

----------------------------------------------------------------------------
(* ReplayTracker properties, checked under ReplaySpec *)

\* The call on the grid that plays the ActionBoolean object ab.
PlayOf(ab) ==
    <<IF ab.is_undo THEN "undo_apply" ELSE "redo_apply", ab.action>>

\* C22: the calls made on the grid are the recorded actions in the order
\* they were added, each at most once, undo_apply for one recorded with
\* is_undo and redo_apply otherwise, and the queue holds the recorded
\* actions not yet played.  A play_next_action on a non-empty queue makes
\* the call for the next recorded action and returns False; on an empty
\* queue it returns True, makes no call on the grid and leaves the tracker
\* as it was.
C22_ReplayInOrder ==
    /\ Len(played) <= Len(recorded)
    /\ \A i \in 1..Len(played) : played[i] = PlayOf(recorded[i])
    /\ replay.replay_queue.items
         = SubSeq(recorded, Len(played) + 1, Len(recorded))
    /\ rlast.op = "play_next_action" =>
          /\ rlast.exc = "none"
          /\ IF Queue_is_empty(rlast.before.replay_queue)
             THEN /\ rlast.ret = TRUE
                  /\ rlast.applied = <<>>
                  /\ replay = rlast.before
             ELSE /\ rlast.ret = FALSE
                  /\ rlast.applied = <<PlayOf(recorded[Len(played)])>>
                  /\ rlast.applied
                       = <<PlayOf(Head(rlast.before.replay_queue.items))>>

\* The third play, of three recorded actions that are not all the same and
\* not all of one kind.
C22_Witness ==
    /\ rlast.op = "play_next_action"
    /\ rlast.ret = FALSE
    /\ Len(played) = MaxRecorded
    /\ \E i, j \in 1..Len(played) :
          /\ played[i][1] # played[j][1]
          /\ played[i][2] # played[j][2]

\* A play_next_action after everything recorded has been played.
C22_WitnessDone ==
    /\ rlast.op = "play_next_action"
    /\ rlast.ret = TRUE
    /\ Len(played) = MaxRecorded

============================================================================
